---- MODULE Spec2Model ----
(***************************************************************************)
(* RSI/MACD DCA bot: position store, fill reconciler, order planner,       *)
(* realized-P&L ledger and poll loop of src/bot.py, with the RSI-only      *)
(* variant of src/bot2.py.                                                 *)
(*                                                                         *)
(* Python floats are modelled as exact rationals <<n, d>> in lowest terms  *)
(* (d > 0); None is the empty tuple.                                       *)
(***************************************************************************)
EXTENDS Integers, Sequences, FiniteSets, TLC

VARIABLES cfg, disk, plfile, now, seq, phase, ticks, summaries, ev, wr, loaded

vars == <<cfg, disk, plfile, now, seq, phase, ticks, summaries, ev, wr, loaded>>

----------------------------------------------------------------------------
(* Bounds of the model *)

MaxTicks == 2
MaxDay == 2

----------------------------------------------------------------------------
(* Float arithmetic as exact rationals *)

None == <<>>

Abs(n) == IF n < 0 THEN -n ELSE n

RECURSIVE GCD(_, _)
GCD(a, b) == IF b = 0 THEN a ELSE GCD(b, a % b)

Rat(n, d) ==
    LET g == GCD(Abs(n), Abs(d))
        s == IF d < 0 THEN -1 ELSE 1
    IN  <<(s * n) \div g, (s * d) \div g>>

R(n) == <<n, 1>>
RAdd(x, y) == Rat(x[1] * y[2] + y[1] * x[2], x[2] * y[2])
RSub(x, y) == Rat(x[1] * y[2] - y[1] * x[2], x[2] * y[2])
RMul(x, y) == Rat(x[1] * y[1], x[2] * y[2])
RDiv(x, y) == Rat(x[1] * y[2], x[2] * y[1])
RLt(x, y) == x[1] * y[2] < y[1] * x[2]
RLe(x, y) == x[1] * y[2] <= y[1] * x[2]
RMax(x, y) == IF RLt(x, y) THEN y ELSE x
RFloor(x) == x[1] \div x[2]

(* NaN compares false with everything; a float input is [nan, v] *)
NaN == [nan |-> TRUE, v |-> R(0)]
F(n) == [nan |-> FALSE, v |-> R(n)]
FLt(a, b) == ~a.nan /\ ~b.nan /\ RLt(a.v, b.v)
FGt(a, b) == ~a.nan /\ ~b.nan /\ RLt(b.v, a.v)

----------------------------------------------------------------------------
(* Symbols, configuration, clock *)

Sym == <<"P", "/", "U">>
SymU == <<"P", "_", "U">>
Sym2 == <<"Q", "/", "U">>
Symbols == {Sym}
StoreSymbols == {Sym, SymU}
(* the symbols list of config.json when there are two *)
LoopSymbols == <<Sym, Sym2>>

(* Per-symbol configuration records (config.json is read by main and      *)
(* handed to run_symbol as sym_cfg).                                       *)
CfgA == [dry_run |-> FALSE, auto_rebuy |-> TRUE, entry_rsi_lt |-> R(30),
         usd_per_entry |-> R(20), dca_steps |-> 2, dca_step_pct |-> R(50),
         max_position_usd |-> R(40), take_profits |-> <<Rat(1, 4), Rat(1, 2)>>,
         tp_allocation |-> <<Rat(1, 2), Rat(1, 2)>>, stop_close_below |-> R(3),
         min_notional_usd |-> R(10), summary_hour |-> 21]

CfgB == [dry_run |-> FALSE, auto_rebuy |-> FALSE, entry_rsi_lt |-> R(30),
         usd_per_entry |-> R(200), dca_steps |-> 3, dca_step_pct |-> R(5),
         max_position_usd |-> R(400), take_profits |-> <<Rat(1, 10)>>,
         tp_allocation |-> <<R(1)>>, stop_close_below |-> R(0),
         min_notional_usd |-> R(198), summary_hour |-> 21]

CfgDry == [CfgA EXCEPT !.dry_run = TRUE]

Configs == {CfgA, CfgB, CfgDry}

Hours == {21, 22}
Minutes == {0, 1, 2}
Times == [date : 1..MaxDay, hour : Hours, minute : Minutes]

MinuteOf(t) == (t.date * 24 + t.hour) * 60 + t.minute
TimeLe(a, b) == MinuteOf(a) <= MinuteOf(b)

----------------------------------------------------------------------------
(* State & PnL: SymbolState, state files, profit log *)

SymbolState == [avg_entry |-> R(0), total_base |-> R(0),
                open_buy_orders |-> <<>>, open_sell_orders |-> <<>>,
                anchor_price |-> None, last_signal_ts |-> 0]

state_path(sym) == [i \in DOMAIN sym |-> IF sym[i] = "/" THEN "_" ELSE sym[i]]

Paths == {state_path(s) : s \in StoreSymbols \cup {Sym2}}

(* A file: the key/value items written so far and whether the closing      *)
(* brace has been written.                                                 *)
NoFile == [exists |-> FALSE, items |-> <<>>, closed |-> FALSE]
FullFile(items) == [exists |-> TRUE, items |-> items, closed |-> TRUE]

JNum(x) == <<"num", x>>
JInt(n) == <<"int", n>>
JList(s) == <<"list", s>>
JNull == <<"null">>
JStr(s) == <<"str", s>>

json_dump_state(st) ==
    << <<"avg_entry", JNum(st.avg_entry)>>,
       <<"total_base", JNum(st.total_base)>>,
       <<"open_buy_orders", JList(st.open_buy_orders)>>,
       <<"open_sell_orders", JList(st.open_sell_orders)>>,
       <<"anchor_price", IF st.anchor_price = None THEN JNull ELSE JNum(st.anchor_price)>>,
       <<"last_signal_ts", JInt(st.last_signal_ts)>> >>

JValue(j) == IF j[1] = "null" THEN None ELSE j[2]

JGet(items, key, default) ==
    IF \E i \in DOMAIN items : items[i][1] = key
    THEN JValue(items[CHOOSE i \in DOMAIN items : items[i][1] = key][2])
    ELSE default

(* json.load raises on a file whose text is incomplete *)
json_ok(f) == f.exists /\ f.closed

state_from_json(items) ==
    [avg_entry |-> JGet(items, "avg_entry", SymbolState.avg_entry),
     total_base |-> JGet(items, "total_base", SymbolState.total_base),
     open_buy_orders |-> JGet(items, "open_buy_orders", SymbolState.open_buy_orders),
     open_sell_orders |-> JGet(items, "open_sell_orders", SymbolState.open_sell_orders),
     anchor_price |-> JGet(items, "anchor_price", SymbolState.anchor_price),
     last_signal_ts |-> JGet(items, "last_signal_ts", SymbolState.last_signal_ts)]

(* load_state: [ok, st]; ok = FALSE when json.load raises *)
load_state(d, sym) ==
    LET f == d[state_path(sym)]
    IN  IF ~f.exists THEN [ok |-> TRUE, st |-> SymbolState]
        ELSE IF ~json_ok(f) THEN [ok |-> FALSE, st |-> SymbolState]
        ELSE [ok |-> TRUE, st |-> state_from_json(f.items)]

(* save_state: open(path, "w") truncates the file, json.dump writes the    *)
(* items, leaving the with block closes it                                 *)
save_open(d, sym) ==
    [d EXCEPT ![state_path(sym)] = [exists |-> TRUE, items |-> <<>>, closed |-> FALSE]]

save_write(d, sym, st, k) ==
    [d EXCEPT ![state_path(sym)].items = SubSeq(json_dump_state(st), 1, k)]

save_close(d, sym) == [d EXCEPT ![state_path(sym)].closed = TRUE]

save_state(d, sym, st) ==
    save_close(save_write(save_open(d, sym), sym, st, Len(json_dump_state(st))), sym)

EmptyPl == [trades |-> <<>>, last_daily_summary_date |-> 0]

json_dump_pl(pl) ==
    << <<"trades", JList(pl.trades)>>,
       <<"last_daily_summary_date", JInt(pl.last_daily_summary_date)>> >>

(* load_pl: [ok, pl]; ok = FALSE when json.load raises *)
load_pl(f) ==
    IF ~f.exists THEN [ok |-> TRUE, pl |-> EmptyPl]
    ELSE IF ~json_ok(f) THEN [ok |-> FALSE, pl |-> EmptyPl]
    ELSE [ok |-> TRUE,
          pl |-> [trades |-> JGet(f.items, "trades", <<>>),
                  last_daily_summary_date |-> JGet(f.items, "last_daily_summary_date", 0)]]

save_pl(pl) == FullFile(json_dump_pl(pl))

----------------------------------------------------------------------------
(* Helpers: list operations, order identifiers, amounts *)

InSeq(x, s) == \E i \in DOMAIN s : s[i] = x

(* list.remove(x): drops the first occurrence *)
Remove(s, x) ==
    LET k == CHOOSE i \in DOMAIN s : s[i] = x /\ \A j \in 1..(i - 1) : s[j] # x
    IN  [i \in 1..(Len(s) - 1) |-> IF i < k THEN s[i] ELSE s[i + 1]]

(* client_order_id: the prefix and the first 10 hex digits of the sha1 of  *)
(* the prefix, the millisecond clock and a random draw. calls are the      *)
(* identifiers the earlier calls have returned; the call returns that of   *)
(* call j when both have the same prefix and the same 10 digits (the same  *)
(* millisecond and draw, or two hashes that agree), else a new one; j = 0  *)
(* when no earlier call agrees.                                            *)
client_order_id(prefix, calls, j) ==
    IF j \in DOMAIN calls /\ calls[j][1] = prefix THEN calls[j]
    ELSE <<prefix, Len(calls) + 1>>

(* same[k] is the earlier call that the k-th call of a cycle agrees with *)
Hit(same, k) == IF k \in DOMAIN same THEN same[k] ELSE 0

(* exchange.amount_to_precision: truncation to the market's amount step *)
AmountScale == 1
amount_to_precision(x) == Rat(RFloor(RMul(x, R(AmountScale))), AmountScale)

amount_from_usd(usd, price) == amount_to_precision(RDiv(usd, price))

(* place_limit_buy / place_limit_sell / place_market_sell: the identifier  *)
(* cid drawn at the top, or None when create_order raises; a dry run never *)
(* calls the exchange.                                                     *)
place_order(cid, dry_run, fails) ==
    IF dry_run \/ ~fails THEN cid ELSE None

----------------------------------------------------------------------------
(* Reconcile fills -> avg/size & PnL *)

PyOr(a, b) == IF a # 0 THEN a ELSE b

Trade(ts, symbol, side, filled, price, realized) ==
    [ts |-> ts, symbol |-> symbol, side |-> side, filled |-> filled,
     price |-> price, realized_usd |-> realized]

(* the weighted average of a buy fill *)
(* variant: the mean of the old average and the fill price, ignoring sizes *)
buy_fill_avg_unweighted(st, filled, price) ==
    RDiv(RAdd(st.avg_entry, price), R(2))

buy_fill_avg(st, filled, price) ==
    RDiv(RAdd(RMul(st.avg_entry, st.total_base), RMul(filled, price)),
         RAdd(st.total_base, filled))

apply_buy(st, cid, filled, price) ==
    LET new_base == RAdd(st.total_base, filled)
    IN  [st EXCEPT !.avg_entry = IF RLt(R(0), new_base)
                                 THEN buy_fill_avg(st, filled, price) ELSE @,
                   !.total_base = new_base,
                   !.open_buy_orders = Remove(@, cid)]

(* variant: the proceeds of the sale, without the cost basis *)
sell_realized_gross(st, filled, price) ==
    RMul(filled, price)

sell_realized(st, filled, price) ==
    RSub(RMul(filled, price), RMul(filled, st.avg_entry))

apply_sell(st, cid, filled) ==
    [st EXCEPT !.total_base = RMax(R(0), RSub(st.total_base, filled)),
               !.open_sell_orders = Remove(@, cid)]

(* one iteration of the loop over the order reports; log keeps, for every   *)
(* report, the state before and after it                                    *)
reconcile_order(acc, o, symbol, ts) ==
    LET st == acc.st
        filled == R(o.filled)
        price == R(PyOr(o.average, PyOr(o.price, 0)))
        live == o.status = "closed" /\ RLt(R(0), filled) /\ RLt(R(0), price)
        isBuy == live /\ o.side = "buy" /\ InSeq(o.cid, st.open_buy_orders)
        st1 == IF isBuy THEN apply_buy(st, o.cid, filled, price) ELSE st
        isSell == live /\ o.side = "sell" /\ InSeq(o.cid, st1.open_sell_orders)
        st2 == IF isSell THEN apply_sell(st1, o.cid, filled) ELSE st1
        realized == sell_realized(st1, filled, price)
        entry == [o |-> o, before |-> st, after |-> st2,
                  applied |-> IF isBuy THEN "buy" ELSE IF isSell THEN "sell" ELSE "none"]
    IN  [st |-> st2,
         pl |-> IF isSell
                THEN [acc.pl EXCEPT !.trades =
                         Append(@, Trade(ts, symbol, "sell", filled, price, realized))]
                ELSE acc.pl,
         changed |-> acc.changed \/ isBuy \/ isSell,
         pl_saved |-> acc.pl_saved \/ isSell,
         log |-> Append(acc.log, entry),
         raised |-> FALSE]

RECURSIVE reconcile_loop(_, _, _, _, _)
reconcile_loop(acc, orders, i, symbol, ts) ==
    IF i > Len(orders) THEN acc
    ELSE reconcile_loop(reconcile_order(acc, orders[i], symbol, ts), orders, i + 1, symbol, ts)

(* reconcile_fills: rec = [st, pl, changed, pl_saved, log, raised]; fetch   *)
(* is "dry", "error" or "ok"; the ledger is loaded after fetch_orders has   *)
(* returned, and raised says that load_pl raised                            *)
(* variant: a failed fetch_orders loses the position instead of keeping it *)
reconcile_fills_forgetful(st, plf, fetch, orders, symbol, ts) ==
    LET start == [st |-> SymbolState, pl |-> load_pl(plf).pl, changed |-> TRUE,
                  pl_saved |-> FALSE, log |-> <<>>, raised |-> FALSE]
    IN  IF fetch = "error" THEN start
        ELSE IF fetch = "ok" /\ ~load_pl(plf).ok
        THEN [start EXCEPT !.st = st, !.changed = FALSE, !.raised = TRUE]
        ELSE reconcile_loop([start EXCEPT !.st = st, !.changed = FALSE], orders, 1, symbol, ts)

reconcile_fills(st, plf, fetch, orders, symbol, ts) ==
    LET start == [st |-> st, pl |-> load_pl(plf).pl, changed |-> FALSE,
                  pl_saved |-> FALSE, log |-> <<>>, raised |-> FALSE]
    IN  IF fetch # "ok" THEN start
        ELSE IF ~load_pl(plf).ok THEN [start EXCEPT !.raised = TRUE]
        ELSE reconcile_loop(start, orders, 1, symbol, ts)

----------------------------------------------------------------------------
(* Core loop (RSI + MACD): the stages of run_symbol in src/bot.py *)

(* the stop-loss condition *)
stop_hit(c, st, last) ==
    RLt(R(0), st.total_base) /\ RLt(R(0), c.stop_close_below) /\ RLt(last, c.stop_close_below)

(* Take-profits: acc = [st, n, log, p, raise_at, raised, same]; n holds the *)
(* identifiers of the client_order_id calls so far, n0 those before the     *)
(* cycle; p counts the amount_to_precision calls; the call number raise_at  *)
(* raises, which ends run_symbol on the spot; same names the calls of the   *)
(* cycle that return an earlier identifier                                  *)
RECURSIVE take_profit_loop(_, _, _, _, _, _)
take_profit_loop(c, acc, idx, last, n0, fails) ==
    IF idx > Len(c.take_profits) THEN acc
    ELSE IF acc.p + 1 = acc.raise_at THEN [acc EXCEPT !.raised = TRUE, !.p = @ + 1]
    ELSE LET st == acc.st
             target_price == RMul(st.avg_entry, RAdd(R(1), c.take_profits[idx]))
             amount == amount_to_precision(RMul(st.total_base, c.tp_allocation[idx]))
             k == Len(acc.n) + 1 - Len(n0)
             drawn == client_order_id("sell", acc.n, Hit(acc.same, k))
             cid == place_order(drawn, c.dry_run, k \in fails)
             skip == RLt(RMul(amount, last), c.min_notional_usd)
             e == [idx |-> idx, price |-> target_price, amount |-> amount,
                   result |-> IF skip THEN "skipped"
                              ELSE IF cid = None THEN "failed" ELSE "placed"]
             next == IF skip THEN [acc EXCEPT !.log = Append(@, e), !.p = @ + 1]
                     ELSE [acc EXCEPT
                             !.st = IF cid = None THEN st
                                    ELSE [st EXCEPT !.open_sell_orders = Append(@, cid)],
                             !.n = Append(@, drawn),
                             !.log = Append(@, e),
                             !.p = @ + 1]
         IN  take_profit_loop(c, next, idx + 1, last, n0, fails)

(* DCA ladder: acc = [st, n, total_usd, log, p, raise_at, raised, same] *)
(* variant: each step is dca_step_pct below the step before it *)
RECURSIVE ladder_price_compound(_, _, _)
ladder_price_compound(price, i, dca_step_pct) ==
    IF i = 0 THEN price
    ELSE RMul(ladder_price_compound(price, i - 1, dca_step_pct),
              RSub(R(1), RDiv(dca_step_pct, R(100))))

ladder_price(price, i, dca_step_pct) ==
    RMul(price, RSub(R(1), RDiv(RMul(R(i), dca_step_pct), R(100))))

RECURSIVE ladder_loop(_, _, _, _, _, _)
ladder_loop(c, acc, i, price, n0, fails) ==
    IF i >= c.dca_steps THEN acc
    ELSE LET st == acc.st
             buy_price == ladder_price(price, i, c.dca_step_pct)
             usd_budget == c.usd_per_entry
             over == RLt(c.max_position_usd, RAdd(acc.total_usd, usd_budget))
             small == RLt(usd_budget, c.min_notional_usd)
             amount == amount_from_usd(usd_budget, buy_price)
             dust == RLt(RMul(amount, buy_price), c.min_notional_usd)
             k == Len(acc.n) + 1 - Len(n0)
             drawn == client_order_id("buy", acc.n, Hit(acc.same, k))
             cid == place_order(drawn, c.dry_run, k \in fails)
             e == [i |-> i, price |-> buy_price, total_usd |-> acc.total_usd,
                   amount |-> IF over \/ small THEN R(0) ELSE amount,
                   result |-> IF over THEN "break"
                              ELSE IF small \/ dust THEN "skipped"
                              ELSE IF cid = None THEN "failed" ELSE "placed"]
         IN  IF over THEN [acc EXCEPT !.log = Append(@, e)]
             ELSE IF small
                  THEN ladder_loop(c, [acc EXCEPT !.log = Append(@, e)], i + 1, price, n0, fails)
             ELSE IF acc.p + 1 = acc.raise_at
                  THEN [acc EXCEPT !.raised = TRUE, !.p = @ + 1]
             ELSE IF dust
                  THEN ladder_loop(c, [acc EXCEPT !.log = Append(@, e), !.p = @ + 1],
                                   i + 1, price, n0, fails)
             ELSE ladder_loop(c,
                    [acc EXCEPT
                       !.st = IF cid = None THEN st
                              ELSE [st EXCEPT !.open_buy_orders = Append(@, cid)],
                       !.n = Append(@, drawn),
                       !.total_usd = IF cid = None THEN @ ELSE RAdd(@, usd_budget),
                       !.log = Append(@, e),
                       !.p = @ + 1],
                    i + 1, price, n0, fails)

(* what one action did, for the properties below *)
NoEv == [op |-> "init", sym |-> Sym, aborted |-> FALSE, fetch |-> "none", log |-> <<>>,
         stop |-> "none", rec_st |-> SymbolState, stop_st |-> SymbolState, last |-> R(0), reset |-> FALSE,
         trades_added |-> 0, tps |-> <<>>, armed |-> "none", cleared |-> FALSE,
         ladder |-> <<>>, sent |-> 0, raised |-> FALSE,
         inp |-> [fetch_ok |-> TRUE, last |-> 0, rsi |-> [nan |-> FALSE, v |-> <<0, 1>>],
                  hist |-> 0, hist_prev |-> 0, orders_ok |-> TRUE, orders |-> <<>>,
                  fails |-> {}, raise_at |-> 0, same |-> <<>>]]

now_ms(t) == MinuteOf(t)

(* run_symbol after reconcile_fills, on the stop-loss branch; load_pl     *)
(* raises after the market sell has been placed                          *)
stop_exit(c, d, plf, sq, t, sym, st, last, fails, same) ==
    LET drawn == client_order_id("mksell", sq, Hit(same, 1))
        cid == place_order(drawn, c.dry_run, 1 \in fails)
        pl == load_pl(plf).pl
        realized == RMul(RSub(last, st.avg_entry), st.total_base)
        entry == Trade(now_ms(t), sym, "stop_exit", st.total_base, last, realized)
    IN  IF cid = None
        THEN [disk |-> d, plfile |-> plf, seq |-> Append(sq, drawn), stop |-> "failed", reset |-> FALSE,
              raised |-> FALSE]
        ELSE IF ~load_pl(plf).ok
        THEN [disk |-> d, plfile |-> plf, seq |-> Append(sq, drawn), stop |-> "placed", reset |-> FALSE,
              raised |-> TRUE]
        ELSE [disk |-> save_state(d, sym, SymbolState),
              plfile |-> save_pl([pl EXCEPT !.trades = Append(@, entry)]),
              seq |-> Append(sq, drawn), stop |-> "placed", reset |-> TRUE, raised |-> FALSE]

(* Take-profits of run_symbol: placed and persisted when a position is held *)
(* with a cost basis; the result is [disk, st, n, tps]                      *)
tp_saved(d, sym, tp) ==
    [disk |-> IF tp.raised THEN d ELSE save_state(d, sym, tp.st),
     st |-> tp.st, n |-> tp.n, tps |-> tp.log, p |-> tp.p, raised |-> tp.raised]

take_profits(c, d, sq, sym, st0, last, fails, raise_at, same) ==
    IF RLt(R(0), st0.total_base) /\ RLt(R(0), st0.avg_entry)
    THEN tp_saved(d, sym,
            take_profit_loop(c, [st |-> st0, n |-> sq, log |-> <<>>, p |-> 0,
                                 raise_at |-> raise_at, raised |-> FALSE, same |-> same],
                             1, last, sq, fails))
    ELSE [disk |-> d, st |-> st0, n |-> sq, tps |-> <<>>, p |-> 0, raised |-> FALSE]

(* variant: a missing RSI counts as oversold *)
entry_signal_nan_low(c, rsi, hist, hist_prev) ==
    (rsi.nan \/ FLt(rsi, [nan |-> FALSE, v |-> c.entry_rsi_lt])) /\ hist > hist_prev

(* the entry signal: RSI below the trigger and the MACD histogram rising *)
entry_signal(c, rsi, hist, hist_prev) ==
    FLt(rsi, [nan |-> FALSE, v |-> c.entry_rsi_lt]) /\ hist > hist_prev

(* the anchor is set when the signal finds none *)
arm_anchor(st, last, t) ==
    IF st.anchor_price = None
    THEN [st EXCEPT !.anchor_price = last, !.last_signal_ts = now_ms(t)]
    ELSE st

ladder_from_anchor(c, st1, n, sq, fails, p, raise_at, same) ==
    ladder_loop(c, [st |-> st1, n |-> n, total_usd |-> R(0), log |-> <<>>, p |-> p,
                    raise_at |-> raise_at, raised |-> FALSE, same |-> same],
                0, st1.anchor_price, sq, fails)

ladder_saved(a, sym, lad) ==
    [disk |-> IF lad.raised THEN a.disk ELSE save_state(a.disk, sym, lad.st),
     st |-> lad.st, seq |-> lad.n, tps |-> a.tps, ladder |-> lad.log,
     armed |-> IF a.st.anchor_price = None THEN "entry" ELSE "none", cleared |-> FALSE,
     raised |-> lad.raised]

(* without a signal the anchor is cleared once RSI is far above the trigger *)
clear_anchor(c, a, sym, rsi) ==
    LET clear == /\ a.st.anchor_price # None /\ a.st.anchor_price # R(0)
                 /\ FGt(rsi, [nan |-> FALSE, v |-> RAdd(c.entry_rsi_lt, R(10))])
        st2 == IF clear THEN [a.st EXCEPT !.anchor_price = None] ELSE a.st
    IN  [disk |-> IF clear THEN save_state(a.disk, sym, st2) ELSE a.disk,
         st |-> st2, seq |-> a.n, tps |-> a.tps, ladder |-> <<>>,
         armed |-> "none", cleared |-> clear, raised |-> FALSE]

(* a is the result of take_profits; nothing follows an exception *)
entry_or_clear(c, a, sq, t, sym, last, rsi, hist, hist_prev, fails, raise_at, same) ==
    IF a.raised
    THEN [disk |-> a.disk, st |-> a.st, seq |-> a.n, tps |-> a.tps, ladder |-> <<>>,
          armed |-> "none", cleared |-> FALSE, raised |-> TRUE]
    ELSE IF entry_signal(c, rsi, hist, hist_prev)
    THEN ladder_saved(a, sym,
            ladder_from_anchor(c, arm_anchor(a.st, last, t), a.n, sq, fails, a.p, raise_at,
                               same))
    ELSE clear_anchor(c, a, sym, rsi)

(* b is the result of entry_or_clear *)
auto_rearm(c, b, sym, last, rsi) ==
    LET rearm == /\ ~b.raised
                 /\ c.auto_rebuy /\ b.st.total_base = R(0)
                 /\ FLt(rsi, [nan |-> FALSE, v |-> c.entry_rsi_lt])
                 /\ b.st.anchor_price = None
        st3 == [b.st EXCEPT !.anchor_price = last]
    IN  IF rearm
        THEN [b EXCEPT !.disk = save_state(b.disk, sym, st3), !.st = st3, !.armed = "rearm"]
        ELSE b

(* run_symbol from the take-profits on: TP placement, entry, ladder, rearm *)
plan_orders(c, d, sq, t, sym, st0, last, rsi, hist, hist_prev, fails, raise_at, same) ==
    auto_rearm(c,
               entry_or_clear(c, take_profits(c, d, sq, sym, st0, last, fails, raise_at, same),
                              sq, t, sym, last, rsi, hist, hist_prev, fails, raise_at, same),
               sym, last, rsi)

stopped(base, x, st, last) ==
    [disk |-> x.disk, plfile |-> x.plfile, seq |-> x.seq,
     ev |-> [base EXCEPT !.stop = x.stop, !.stop_st = st, !.last = last,
                         !.reset = x.reset, !.raised = x.raised,
                         !.trades_added = @ + IF x.reset THEN 1 ELSE 0]]

planned(base, x, plf1) ==
    [disk |-> x.disk, plfile |-> plf1, seq |-> x.seq,
     ev |-> [base EXCEPT !.tps = x.tps, !.ladder = x.ladder,
                         !.armed = x.armed, !.cleared = x.cleared, !.raised = x.raised]]

(* variant: a stop-loss exit that could not be placed falls through to *)
(* the take-profits and the entry                                       *)
after_reconcile_fall_through(c, d, plf, sq, t, sym, inp, fetch, rec) ==
    LET plf1 == IF rec.pl_saved THEN save_pl(rec.pl) ELSE plf
        d1 == IF rec.changed THEN save_state(d, sym, rec.st) ELSE d
        last == R(inp.last)
        base == [NoEv EXCEPT !.op = "run", !.sym = sym, !.inp = inp, !.fetch = fetch,
                             !.log = rec.log, !.rec_st = rec.st,
                             !.trades_added = Len(rec.pl.trades) - Len(load_pl(plf).pl.trades)]
    IN  IF rec.raised
        THEN [disk |-> d, plfile |-> plf, seq |-> sq,
              ev |-> [base EXCEPT !.aborted = TRUE, !.raised = TRUE]]
        ELSE IF /\ stop_hit(c, rec.st, last)
           /\ stop_exit(c, d1, plf1, sq, t, sym, rec.st, last,
                        inp.fails, inp.same).stop = "placed"
        THEN stopped(base,
                     stop_exit(c, d1, plf1, sq, t, sym, rec.st, last, inp.fails, inp.same),
                     rec.st, last)
        ELSE planned(base,
                     plan_orders(c, d1, sq, t, sym, rec.st, last, inp.rsi,
                                 inp.hist, inp.hist_prev, inp.fails, inp.raise_at, inp.same),
                     plf1)

(* run_symbol after reconcile_fills has returned rec *)
after_reconcile(c, d, plf, sq, t, sym, inp, fetch, rec) ==
    LET plf1 == IF rec.pl_saved THEN save_pl(rec.pl) ELSE plf
        d1 == IF rec.changed THEN save_state(d, sym, rec.st) ELSE d
        last == R(inp.last)
        base == [NoEv EXCEPT !.op = "run", !.sym = sym, !.inp = inp, !.fetch = fetch,
                             !.log = rec.log, !.rec_st = rec.st,
                             !.trades_added = Len(rec.pl.trades) - Len(load_pl(plf).pl.trades)]
    IN  IF rec.raised
        THEN [disk |-> d, plfile |-> plf, seq |-> sq,
              ev |-> [base EXCEPT !.aborted = TRUE, !.raised = TRUE]]
        ELSE IF stop_hit(c, rec.st, last)
        THEN stopped(base,
                     stop_exit(c, d1, plf1, sq, t, sym, rec.st, last, inp.fails, inp.same),
                     rec.st, last)
        ELSE planned(base,
                     plan_orders(c, d1, sq, t, sym, rec.st, last, inp.rsi,
                                 inp.hist, inp.hist_prev, inp.fails, inp.raise_at, inp.same),
                     plf1)

reconcile_mode(c, inp) ==
    IF c.dry_run THEN "dry" ELSE IF inp.orders_ok THEN "ok" ELSE "error"

(* run_symbol: inp = [fetch_ok, last, rsi, hist, hist_prev, orders_ok,      *)
(* orders, fails, raise_at, same]; the result is the files, the identifiers *)
(* drawn so far and ev                                                      *)
run_symbol(c, d, plf, sq, t, sym, inp) ==
    IF ~load_state(d, sym).ok \/ ~inp.fetch_ok
    THEN [disk |-> d, plfile |-> plf, seq |-> sq,
          ev |-> [NoEv EXCEPT !.op = "run", !.sym = sym, !.inp = inp, !.aborted = TRUE]]
    ELSE after_reconcile(c, d, plf, sq, t, sym, inp, reconcile_mode(c, inp),
            reconcile_fills(load_state(d, sym).st, plf, reconcile_mode(c, inp),
                            inp.orders, sym, now_ms(t)))

----------------------------------------------------------------------------
(* Daily summary *)

(* variant: no marker check, the summary goes out on every check in the window *)
maybe_send_daily_summary_unguarded(plf, t, summary_hour) ==
    LET pl == load_pl(plf).pl
    IN  IF ~load_pl(plf).ok THEN [plfile |-> plf, sent |-> 0, raised |-> TRUE]
        ELSE IF t.hour # summary_hour \/ t.minute \notin {0, 1}
        THEN [plfile |-> plf, sent |-> 0, raised |-> FALSE]
        ELSE [plfile |-> save_pl([pl EXCEPT !.last_daily_summary_date = t.date]),
              sent |-> 1, raised |-> FALSE]

(* the result is [plfile, sent, raised]; load_pl is the first statement  *)
maybe_send_daily_summary(plf, t, summary_hour) ==
    LET pl == load_pl(plf).pl
        today_key == t.date
    IN  IF ~load_pl(plf).ok THEN [plfile |-> plf, sent |-> 0, raised |-> TRUE]
        ELSE IF t.hour # summary_hour \/ t.minute \notin {0, 1}
        THEN [plfile |-> plf, sent |-> 0, raised |-> FALSE]
        ELSE IF pl.last_daily_summary_date = today_key
        THEN [plfile |-> plf, sent |-> 0, raised |-> FALSE]
        ELSE [plfile |-> save_pl([pl EXCEPT !.last_daily_summary_date = today_key]),
              sent |-> 1, raised |-> FALSE]

----------------------------------------------------------------------------
(* Inputs of one cycle: ticker, indicators, order reports, exchange errors *)

PricesOf(c) == IF c.dca_steps = 3 THEN {2, 4, 100} ELSE {2, 4}

(* rsi, macd_hist, macd_hist_prev *)
Indicators == {<<NaN, 1, 0>>, <<F(20), 1, 0>>, <<F(20), 0, 0>>, <<F(35), 1, 0>>,
               <<F(40), 1, 0>>, <<F(50), 1, 0>>}

(* the create_order calls of the cycle that raise, by position *)
FailSets == {{}, {1}, {2}}

(* fills the exchange reports: filled, average (0 = absent), price *)
Shape(status, filled, average, price) ==
    [status |-> status, filled |-> filled, average |-> average, price |-> price]
BuyShapes == {Shape("closed", 10, 0, 2), Shape("closed", 10, 4, 2)}
SellShapes == {Shape("closed", 5, 5, 0), Shape("closed", 10, 4, 2)}
NoiseShapes == {Shape("open", 10, 2, 2), Shape("closed", 0, 2, 2), Shape("closed", 10, 0, 0)}

Ends(s) == IF s = <<>> THEN {} ELSE {s[1], s[Len(s)]}

Report(cid, side, shape) ==
    [status |-> shape.status, cid |-> cid, side |-> side, filled |-> shape.filled,
     average |-> shape.average, price |-> shape.price]

(* the reports fetch_orders may return for the orders of st *)
ReportsFor(st) ==
    {Report(cid, "buy", sh) : cid \in Ends(st.open_buy_orders), sh \in BuyShapes}
    \cup {Report(cid, "sell", sh) : cid \in Ends(st.open_sell_orders), sh \in SellShapes}
    \cup {Report(st.open_buy_orders[1], "buy", sh) :
             sh \in IF st.open_buy_orders = <<>> THEN {} ELSE NoiseShapes}
    \cup {Report(<<"manual", 0>>, "sell", Shape("closed", 5, 5, 0))}

(* the reports that come in pairs, in either order and twice over *)
PairReportsFor(st) ==
    {Report(st.open_buy_orders[i], "buy", Shape("closed", 10, 0, 2)) :
        i \in {1} \cap DOMAIN st.open_buy_orders}
    \cup {Report(st.open_buy_orders[i], "buy", Shape("closed", 10, 4, 2)) :
        i \in {Len(st.open_buy_orders)} \cap DOMAIN st.open_buy_orders}
    \cup {Report(cid, "sell", Shape("closed", 5, 5, 0)) : cid \in Ends(st.open_sell_orders)}

OrderLists(st) ==
    {<<>>} \cup {<<o>> : o \in ReportsFor(st)}
    \cup {<<a, b>> : a \in PairReportsFor(st), b \in PairReportsFor(st)}

Input(fetch_ok, last, ind, orders_ok, orders, fails) ==
    [fetch_ok |-> fetch_ok, last |-> last, rsi |-> ind[1], hist |-> ind[2],
     hist_prev |-> ind[3], orders_ok |-> orders_ok, orders |-> orders, fails |-> fails,
     raise_at |-> 0, same |-> <<>>]

(* the same cycle with the k-th amount_to_precision call raising *)
Raising(inp, k) == [inp EXCEPT !.raise_at = k]

(* the client_order_id calls of a cycle that agree with an earlier call:   *)
(* the second call with the first of the cycle; the first or the third     *)
(* call with the first call of the run, which may be cycles back           *)
Collisions(sq) ==
    {<<0, Len(sq) + 1>>, <<0, 0, 1>>} \cup (IF sq = <<>> THEN {} ELSE {<<1>>})

RaiseAts == {1, 2, 3}

Quiet == <<F(35), 1, 0>>
Oversold == <<F(20), 1, 0>>

(* the inputs of a live cycle, varied one group at a time *)
LiveInputs(c, st, sq) ==
    {Input(TRUE, last, ind, TRUE, <<>>, {}) : last \in PricesOf(c), ind \in Indicators}
    \cup {Input(TRUE, last, ind, TRUE, <<>>, fails) :
             last \in PricesOf(c), ind \in {Quiet, Oversold}, fails \in FailSets}
    \cup {Input(TRUE, 4, Quiet, TRUE, orders, {}) : orders \in OrderLists(st)}
    \cup {Input(TRUE, last, ind, FALSE, <<>>, {}) :
             last \in PricesOf(c), ind \in {Quiet, Oversold}}
    \cup {Input(FALSE, 4, Quiet, FALSE, <<>>, {})}
    \cup {Raising(Input(TRUE, 4, ind, TRUE, <<>>, {}), k) :
             ind \in {Quiet, Oversold}, k \in RaiseAts}
    \cup {Raising(Input(TRUE, 4, <<F(50), 1, 0>>, TRUE, <<>>, {}), 1)}
    \cup {[Input(TRUE, 4, Quiet, TRUE, <<>>, {}) EXCEPT !.same = <<0, Len(sq) + 1>>]}
    \cup {[Input(TRUE, 4, Oversold, TRUE, <<>>, {}) EXCEPT !.same = same] :
             same \in Collisions(sq)}

DryInputs(c, sq) ==
    {Input(TRUE, last, ind, TRUE, <<>>, {}) : last \in PricesOf(c), ind \in Indicators}
    \cup {Input(FALSE, 4, Quiet, FALSE, <<>>, {})}
    \cup {[Input(TRUE, 4, Quiet, TRUE, <<>>, {}) EXCEPT !.same = <<0, Len(sq) + 1>>]}
    \cup {[Input(TRUE, 4, Oversold, TRUE, <<>>, {}) EXCEPT !.same = same] :
             same \in Collisions(sq)}

Inputs(c, st, sq) == IF c.dry_run THEN DryInputs(c, sq) ELSE LiveInputs(c, st, sq)

(* fetch_orders returns the orders of the last 24 hours: a closed order is *)
(* reported again in later passes, after its identifier has left the open  *)
(* lists                                                                   *)
StaleReports(st, sq) ==
    (IF InSeq(<<"buy", 1>>, sq) /\ ~InSeq(<<"buy", 1>>, st.open_buy_orders)
     THEN {Report(<<"buy", 1>>, "buy", Shape("closed", 10, 0, 2))} ELSE {})
    \cup (IF InSeq(<<"sell", 3>>, sq) /\ ~InSeq(<<"sell", 3>>, st.open_sell_orders)
          THEN {Report(<<"sell", 3>>, "sell", Shape("closed", 5, 5, 0))} ELSE {})

StaleInputs(c, st, sq) ==
    IF c.dry_run THEN {}
    ELSE {Input(TRUE, 4, Quiet, TRUE, <<o>>, {}) : o \in StaleReports(st, sq)}

----------------------------------------------------------------------------
(* main: the poll loop of src/bot.py *)

(* a save_state in progress, and the last load_state of the store runs *)
NoWrite == [active |-> FALSE, crashed |-> FALSE, sym |-> Sym, new |-> SymbolState,
            old |-> SymbolState, k |-> 0, saved |-> {}, last_saved |-> None]
NoLoad == [valid |-> FALSE, sym |-> Sym, ok |-> TRUE, st |-> SymbolState]

(* variant: every start writes an empty ledger *)
main_start_fresh(plf) == save_pl(EmptyPl)

(* main before the loop: the ledger file is created only when there is none *)
main_start(plf) == IF plf.exists THEN plf ELSE save_pl(EmptyPl)

Init ==
    /\ cfg \in Configs
    /\ disk = [p \in Paths |-> NoFile]
    /\ plfile = main_start(NoFile)
    /\ now = [date |-> 1, hour |-> 21, minute |-> 0]
    /\ seq = <<>>
    /\ phase = "cycle"
    /\ ticks = 0
    /\ summaries = [d \in 1..MaxDay |-> 0]
    /\ ev = NoEv
    /\ wr = NoWrite
    /\ loaded = NoLoad

RunSymbol(sym, inputs) ==
    /\ phase = "cycle"
    /\ \E inp \in inputs :
         \E x \in {run_symbol(cfg, disk, plfile, seq, now, sym, inp)} :
             /\ disk' = x.disk
             /\ plfile' = x.plfile
             /\ seq' = x.seq
             /\ ev' = x.ev
    /\ phase' = "summary"
    /\ UNCHANGED <<cfg, now, ticks, summaries, wr, loaded>>

DailySummary ==
    /\ phase = "summary"
    /\ \E x \in {maybe_send_daily_summary(plfile, now, cfg.summary_hour)} :
           /\ plfile' = x.plfile
           /\ summaries' = [summaries EXCEPT ![now.date] = @ + x.sent]
           /\ ev' = [NoEv EXCEPT !.op = "summary", !.sent = x.sent, !.raised = x.raised]
    /\ phase' = "sleep"
    /\ UNCHANGED <<cfg, disk, now, seq, ticks, wr, loaded>>

(* time.sleep(poll): the clock moves on *)
Sleep(times) ==
    /\ phase = "sleep"
    /\ ticks < MaxTicks
    /\ \E t \in times : TimeLe(now, t) /\ now' = t
    /\ ticks' = ticks + 1
    /\ phase' = "cycle"
    /\ ev' = [NoEv EXCEPT !.op = "sleep"]
    /\ UNCHANGED <<cfg, disk, plfile, seq, summaries, wr, loaded>>

(* the process is stopped while it sleeps and started again, before the   *)
(* last cycle of the run                                                  *)
Restart ==
    /\ phase = "sleep"
    /\ ticks = MaxTicks - 1
    /\ plfile' = main_start(plfile)
    /\ ticks' = ticks + 1
    /\ phase' = "cycle"
    /\ ev' = [NoEv EXCEPT !.op = "restart"]
    /\ UNCHANGED <<cfg, disk, now, seq, summaries, wr, loaded>>

CoarseTimes == {[date |-> 1, hour |-> 22, minute |-> 0]}

Next ==
    \/ \E sym \in Symbols :
          RunSymbol(sym, Inputs(cfg, load_state(disk, sym).st, seq)
                         \cup StaleInputs(cfg, load_state(disk, sym).st, seq))
    \/ DailySummary
    \/ Sleep(CoarseTimes)
    \/ Restart

Spec == Init /\ [][Next]_vars

----------------------------------------------------------------------------
(* The RSI-only variant: run_symbol and main of src/bot2.py *)

(* TAKE PROFIT: sells are placed but their identifiers are not kept *)
RECURSIVE take_profit_loop2(_, _, _, _, _, _)
take_profit_loop2(c, acc, idx, last, n0, fails) ==
    IF idx > Len(c.take_profits) THEN acc
    ELSE LET st == acc.st
             target_price == RMul(st.avg_entry, RAdd(R(1), c.take_profits[idx]))
             amount == RMul(st.total_base, c.tp_allocation[idx])
             k == Len(acc.n) + 1 - Len(n0)
             drawn == client_order_id("sell", acc.n, Hit(acc.same, k))
             cid == place_order(drawn, c.dry_run, k \in fails)
             skip == RLt(RMul(amount, last), c.min_notional_usd)
             e == [idx |-> idx, price |-> target_price, amount |-> amount,
                   result |-> IF skip THEN "skipped"
                              ELSE IF cid = None THEN "failed" ELSE "placed"]
         IN  take_profit_loop2(c,
                [st |-> st, n |-> IF skip THEN acc.n ELSE Append(acc.n, drawn),
                 log |-> Append(acc.log, e), same |-> acc.same],
                idx + 1, last, n0, fails)

(* BUY SIGNAL loop: acc = [n, same, total, buy_price, log] *)
RECURSIVE ladder_loop2(_, _, _, _, _, _)
ladder_loop2(c, acc, i, price, n0, fails) ==
    IF i >= c.dca_steps THEN acc
    ELSE LET buy_price == ladder_price(price, i, c.dca_step_pct)
             over == RLt(c.max_position_usd, RAdd(acc.total, c.usd_per_entry))
             amount == amount_from_usd(c.usd_per_entry, buy_price)
             k == Len(acc.n) + 1 - Len(n0)
             drawn == client_order_id("buy", acc.n, Hit(acc.same, k))
             cid == place_order(drawn, c.dry_run, k \in fails)
             e == [i |-> i, price |-> buy_price, total_usd |-> acc.total,
                   amount |-> IF over THEN R(0) ELSE amount,
                   result |-> IF over THEN "break"
                              ELSE IF cid = None THEN "failed" ELSE "placed"]
         IN  IF over THEN [acc EXCEPT !.buy_price = buy_price, !.log = Append(@, e)]
             ELSE ladder_loop2(c,
                    [n |-> Append(acc.n, drawn),
                     same |-> acc.same,
                     total |-> IF cid = None THEN acc.total ELSE RAdd(acc.total, c.usd_per_entry),
                     buy_price |-> buy_price,
                     log |-> Append(acc.log, e)],
                    i + 1, price, n0, fails)

run_symbol2(c, d, sq, sym, inp) ==
    LET ld == load_state(d, sym)
        st0 == ld.st
        last == R(inp.last)
        stop == RLt(R(0), st0.total_base) /\ RLt(last, c.stop_close_below)
        drawn == client_order_id("mksell", sq, Hit(inp.same, 1))
        mk == place_order(drawn, c.dry_run, 1 \in inp.fails)
        hasPos == RLt(R(0), st0.total_base) /\ RLt(R(0), st0.avg_entry)
        tp == IF hasPos
              THEN take_profit_loop2(c, [st |-> st0, n |-> sq, log |-> <<>>, same |-> inp.same],
                                     1, last, sq, inp.fails)
              ELSE [st |-> st0, n |-> sq, log |-> <<>>, same |-> inp.same]
        d1 == IF hasPos THEN save_state(d, sym, tp.st) ELSE d
        enter == FLt(inp.rsi, [nan |-> FALSE, v |-> c.entry_rsi_lt])
        arm == enter /\ st0.anchor_price = None
        st1 == IF arm THEN [st0 EXCEPT !.anchor_price = last] ELSE st0
        lad == IF enter
               THEN ladder_loop2(c, [n |-> tp.n, same |-> inp.same, total |-> R(0),
                                     buy_price |-> R(0), log |-> <<>>],
                                 0, st1.anchor_price, sq, inp.fails)
               ELSE [n |-> tp.n, same |-> inp.same, total |-> R(0), buy_price |-> R(0),
                     log |-> <<>>]
        bought == enter /\ RLt(R(0), lad.total)
        st2 == IF bought
               THEN [st1 EXCEPT !.avg_entry = lad.buy_price,
                                !.total_base = RAdd(@, amount_from_usd(lad.total, lad.buy_price))]
               ELSE st1
        d2 == IF bought THEN save_state(d1, sym, st2) ELSE d1
        base == [NoEv EXCEPT !.op = "run", !.fetch = "none"]
    IN  IF ~ld.ok \/ ~inp.fetch_ok
        THEN [disk |-> d, seq |-> sq, ev |-> [base EXCEPT !.aborted = TRUE]]
        ELSE IF stop
        THEN [disk |-> save_state(d, sym, SymbolState), seq |-> Append(sq, drawn),
              ev |-> [base EXCEPT !.stop = IF mk = None THEN "failed" ELSE "placed",
                                  !.stop_st = st0, !.last = last, !.reset = TRUE]]
        ELSE [disk |-> d2, seq |-> lad.n,
              ev |-> [base EXCEPT !.tps = tp.log, !.ladder = lad.log,
                                  !.armed = IF arm THEN "entry" ELSE "none"]]

Inputs2(c, sq) ==
    {Input(TRUE, last, ind, TRUE, <<>>, fails) :
        last \in PricesOf(c), ind \in {Quiet, Oversold, <<NaN, 1, 0>>}, fails \in FailSets}
    \cup {Input(FALSE, 4, Quiet, TRUE, <<>>, {})}
    \cup {[Input(TRUE, 4, Oversold, TRUE, <<>>, {}) EXCEPT !.same = same] :
             same \in Collisions(sq)}

RunSymbol2(sym) ==
    /\ phase = "cycle"
    /\ \E inp \in Inputs2(cfg, seq) :
         \E x \in {run_symbol2(cfg, disk, seq, sym, inp)} :
             /\ disk' = x.disk
             /\ seq' = x.seq
             /\ ev' = x.ev
    /\ phase' = "sleep"
    /\ UNCHANGED <<cfg, plfile, now, ticks, summaries, wr, loaded>>

(* main of bot2.py: no ledger file is ever created *)
Init2 ==
    /\ cfg = CfgA
    /\ disk = [p \in Paths |-> NoFile]
    /\ plfile = NoFile
    /\ now = [date |-> 1, hour |-> 21, minute |-> 0]
    /\ seq = <<>>
    /\ phase = "cycle"
    /\ ticks = 0
    /\ summaries = [d \in 1..MaxDay |-> 0]
    /\ ev = NoEv
    /\ wr = NoWrite
    /\ loaded = NoLoad

Next2 == (\E sym \in Symbols : RunSymbol2(sym)) \/ Sleep(CoarseTimes)

SpecBot2 == Init2 /\ [][Next2]_vars

----------------------------------------------------------------------------
(* The daily summary against the clock, with trading cycles that write the *)
(* profit log                                                              *)

DailyInputs(c, st) ==
    {Input(TRUE, 4, Oversold, TRUE, <<>>, {}), Input(TRUE, 2, Quiet, TRUE, <<>>, {})}
    \cup {Input(TRUE, last, Quiet, TRUE, <<o>>, {}) :
             last \in {2, 4}, o \in PairReportsFor(st)}

InitDaily == Init /\ cfg = CfgA

NextDaily ==
    \/ \E sym \in Symbols : RunSymbol(sym, DailyInputs(cfg, load_state(disk, sym).st))
    \/ DailySummary
    \/ Sleep(Times)
    \/ Restart

SpecDaily == InitDaily /\ [][NextDaily]_vars

----------------------------------------------------------------------------
(* main with two symbols: for s in symbols: try run_symbol(...) except      *)
(* Exception, then the daily summary and the sleep                          *)

CyclePhase(i) == IF i = 1 THEN "cycle" ELSE "cycle2"

(* variant: no try/except around run_symbol, the exception ends the process *)
next_phase_uncaught(i, failed) ==
    IF failed THEN "exit"
    ELSE IF i < Len(LoopSymbols) THEN CyclePhase(i + 1) ELSE "summary"

(* where the loop goes after the cycle of symbol i, failed or not *)
next_phase(i, failed) ==
    IF i < Len(LoopSymbols) THEN CyclePhase(i + 1) ELSE "summary"

LoopInputs ==
    {Input(TRUE, 4, Quiet, TRUE, <<>>, {}),
     Input(TRUE, 4, Oversold, TRUE, <<>>, {}),
     Raising(Input(TRUE, 4, Oversold, TRUE, <<>>, {}), 1),
     Input(FALSE, 4, Quiet, FALSE, <<>>, {})}

RunSymbolInLoop(i) ==
    /\ phase = CyclePhase(i)
    /\ \E inp \in LoopInputs :
         \E x \in {run_symbol(cfg, disk, plfile, seq, now, LoopSymbols[i], inp)} :
             /\ disk' = x.disk
             /\ plfile' = x.plfile
             /\ seq' = x.seq
             /\ ev' = x.ev
             /\ phase' = next_phase(i, x.ev.aborted \/ x.ev.raised)
    /\ UNCHANGED <<cfg, now, ticks, summaries, wr, loaded>>

(* a state file cut short by an earlier kill makes load_state raise *)
TornFile == [exists |-> TRUE, items |-> <<>>, closed |-> FALSE]

InitLoop ==
    /\ cfg = CfgA
    /\ disk \in {[p \in Paths |-> NoFile],
                 [p \in Paths |-> IF p = state_path(Sym) THEN TornFile ELSE NoFile]}
    /\ plfile = main_start(NoFile)
    /\ now = [date |-> 1, hour |-> 21, minute |-> 0]
    /\ seq = <<>>
    /\ phase = "cycle"
    /\ ticks = 0
    /\ summaries = [d \in 1..MaxDay |-> 0]
    /\ ev = NoEv
    /\ wr = NoWrite
    /\ loaded = NoLoad

NextLoop ==
    \/ \E i \in DOMAIN LoopSymbols : RunSymbolInLoop(i)
    \/ DailySummary
    \/ Sleep(CoarseTimes)

SpecLoop == InitLoop /\ [][NextLoop]_vars /\ WF_vars(NextLoop)

----------------------------------------------------------------------------
(* The position store alone: save_state step by step, a kill of the        *)
(* process in the middle of it, and load_state after the restart           *)

StPos == [avg_entry |-> Rat(5, 2), total_base |-> R(10),
          open_buy_orders |-> << <<"buy", 1>> >>, open_sell_orders |-> << <<"sell", 2>> >>,
          anchor_price |-> R(4), last_signal_ts |-> 7]
StArmed == [SymbolState EXCEPT !.anchor_price = R(2), !.last_signal_ts = 9]
StoreStates == {SymbolState, StPos, StArmed}

SaveOpen(sym, st) ==
    /\ ~wr.active
    /\ disk' = save_open(disk, sym)
    /\ wr' = [wr EXCEPT !.active = TRUE, !.crashed = FALSE, !.sym = sym, !.new = st,
                        !.old = load_state(disk, sym).st, !.k = 0,
                        !.saved = @ \cup {sym}, !.last_saved = None]
    /\ loaded' = NoLoad
    /\ ev' = [NoEv EXCEPT !.op = "save_open"]
    /\ UNCHANGED <<cfg, plfile, now, seq, phase, ticks, summaries>>

SaveWrite ==
    /\ wr.active
    /\ wr.k < Len(json_dump_state(wr.new))
    /\ disk' = save_write(disk, wr.sym, wr.new, wr.k + 1)
    /\ wr' = [wr EXCEPT !.k = @ + 1]
    /\ ev' = [NoEv EXCEPT !.op = "save_write"]
    /\ UNCHANGED <<cfg, plfile, now, seq, phase, ticks, summaries, loaded>>

SaveClose ==
    /\ wr.active
    /\ wr.k = Len(json_dump_state(wr.new))
    /\ disk' = save_close(disk, wr.sym)
    /\ wr' = [wr EXCEPT !.active = FALSE, !.last_saved = <<wr.sym, wr.new>>]
    /\ ev' = [NoEv EXCEPT !.op = "save_close"]
    /\ UNCHANGED <<cfg, plfile, now, seq, phase, ticks, summaries, loaded>>

(* the process is killed inside save_state *)
Crash ==
    /\ wr.active
    /\ wr' = [wr EXCEPT !.active = FALSE, !.crashed = TRUE]
    /\ loaded' = NoLoad
    /\ ev' = [NoEv EXCEPT !.op = "crash"]
    /\ UNCHANGED <<cfg, disk, plfile, now, seq, phase, ticks, summaries>>

Load(sym) ==
    /\ ~wr.active
    /\ \E x \in {load_state(disk, sym)} :
           loaded' = [valid |-> TRUE, sym |-> sym, ok |-> x.ok, st |-> x.st]
    /\ ev' = [NoEv EXCEPT !.op = "load"]
    /\ UNCHANGED <<cfg, disk, plfile, now, seq, phase, ticks, summaries, wr>>

InitStore == Init /\ cfg = CfgA

NextStore ==
    \/ \E sym \in StoreSymbols, st \in StoreStates : SaveOpen(sym, st)
    \/ SaveWrite
    \/ SaveClose
    \/ Crash
    \/ \E sym \in StoreSymbols : Load(sym)

SpecStore == InitStore /\ [][NextStore]_vars

----------------------------------------------------------------------------
(* A cycle cut short: the process is killed at some point of run_symbol   *)
(* and started again                                                      *)

(* save_pl killed after cut items: open(P_L_FILE, "w") has emptied the    *)
(* file and json.dump has not finished                                    *)
save_pl_killed(pl, cut) ==
    [exists |-> TRUE, items |-> SubSeq(json_dump_pl(pl), 1, cut), closed |-> FALSE]

SellEntries(log) == SelectSeq(log, LAMBDA e : e.applied = "sell")

(* one write of the cycle: the files after it, the identifiers drawn by   *)
(* then, the file written, and what the ledger has got from the cycle:    *)
(* sells fills and exits stop-loss exits                                  *)
Step(d, plf, n, wrote, sells, stop, exits) ==
    [disk |-> d, plfile |-> plf, seq |-> n, wrote |-> wrote, sells |-> sells,
     stop |-> stop, exits |-> exits]

(* reconcile_fills: one save_pl per sell fill, then save_state if changed *)
reconcile_steps(d, plf, sq, sym, rec) ==
    LET k == Len(SellEntries(rec.log))
        n0 == Len(rec.pl.trades) - k
    IN  [j \in 1..k |->
            Step(d, save_pl([rec.pl EXCEPT !.trades = SubSeq(@, 1, n0 + j)]), sq,
                 "pl", j, "none", 0)]
        \o (IF rec.changed
            THEN <<Step(save_state(d, sym, rec.st),
                        IF rec.pl_saved THEN save_pl(rec.pl) ELSE plf, sq,
                        "state", k, "none", 0)>>
            ELSE <<>>)

(* the stop-loss branch: x is the result of stop_exit on the files d1,    *)
(* plf1 that reconcile_fills left                                         *)
stop_steps(d1, plf1, k, x) ==
    IF x.reset
    THEN <<Step(d1, x.plfile, x.seq, "pl", k, x.stop, 1),
           Step(x.disk, x.plfile, x.seq, "state", k, x.stop, 1)>>
    ELSE <<Step(d1, plf1, x.seq, "none", k, x.stop, 0)>>

(* the rest of run_symbol: a, b and f are the results of take_profits,    *)
(* entry_or_clear and auto_rearm, each with its save_state when it has one *)
plan_steps(c, plf1, k, inp, st0, a, b, f) ==
    <<Step(a.disk, plf1, a.n,
           IF RLt(R(0), st0.total_base) /\ RLt(R(0), st0.avg_entry) /\ ~a.raised
           THEN "state" ELSE "none", k, "none", 0),
      Step(b.disk, plf1, b.seq,
           IF ~a.raised /\ (IF entry_signal(c, inp.rsi, inp.hist, inp.hist_prev)
                            THEN ~b.raised ELSE b.cleared)
           THEN "state" ELSE "none", k, "none", 0),
      Step(f.disk, plf1, f.seq, IF f.armed = "rearm" THEN "state" ELSE "none",
           k, "none", 0)>>

(* the writes of one cycle in program order *)
cycle_steps(c, d, plf, sq, sym, inp, rec, x, a, b, f) ==
    reconcile_steps(d, plf, sq, sym, rec)
    \o (IF stop_hit(c, rec.st, R(inp.last))
        THEN stop_steps(IF rec.changed THEN save_state(d, sym, rec.st) ELSE d,
                        IF rec.pl_saved THEN save_pl(rec.pl) ELSE plf,
                        Len(SellEntries(rec.log)), x)
        ELSE plan_steps(c, IF rec.pl_saved THEN save_pl(rec.pl) ELSE plf,
                        Len(SellEntries(rec.log)), inp, rec.st, a, b, f))

(* where the kill falls, relative to the k-th write of the cycle: before  *)
(* it, with some of the orders that precede it already sent; between      *)
(* client_order_id and create_order of one of these orders (drawn);       *)
(* inside the write, with the file cut short; after it                    *)
KillPoints == {"before", "drawn", "inside", "after"}

(* before a write: the identifiers drawn since the write before it;       *)
(* inside a write: the items it has left in the file                      *)
KillCounts == {0, 1, 2}

(* the state of the cycle before its k-th write *)
step_before(d, plf, sq, steps, k) ==
    IF k = 1 THEN Step(d, plf, sq, "none", 0, "none", 0) ELSE steps[k - 1]

can_kill(d, plf, sq, steps, k, point, n) ==
    /\ k \in DOMAIN steps
    /\ IF point = "inside" THEN steps[k].wrote # "none"
       ELSE IF point = "after" THEN n = 0
       ELSE /\ Len(step_before(d, plf, sq, steps, k).seq) + n <= Len(steps[k].seq)
            /\ point = "drawn" => n >= 1

(* the files, the identifiers drawn and the ledger entries at the kill *)
killed_at(d, plf, sq, sym, steps, k, point, n) ==
    LET before == step_before(d, plf, sq, steps, k)
        s == steps[k]
        sent == [before EXCEPT !.seq = s.seq, !.stop = s.stop]
        drawn == [before EXCEPT !.seq = SubSeq(s.seq, 1, Len(@) + n)]
    IN  IF point = "after" THEN s
        ELSE IF point = "drawn" THEN drawn
        ELSE IF point = "before"
        THEN IF drawn.seq = s.seq THEN sent ELSE drawn
        ELSE IF s.wrote = "pl"
        THEN [sent EXCEPT !.plfile = save_pl_killed(load_pl(s.plfile).pl, n)]
        ELSE [sent EXCEPT !.disk = save_write(save_open(before.disk, sym), sym,
                                              load_state(s.disk, sym).st, n)]

run_symbol_killed(d, plf, sq, sym, inp, rec, steps, k, point, cut) ==
    LET r == killed_at(d, plf, sq, sym, steps, k, point, cut)
    IN  [disk |-> r.disk, plfile |-> r.plfile, seq |-> r.seq,
         ev |-> [NoEv EXCEPT !.op = "kill", !.sym = sym, !.inp = inp, !.fetch = "ok",
                             !.log = SubSeq(SellEntries(rec.log), 1, r.sells),
                             !.rec_st = rec.st, !.stop = r.stop, !.stop_st = rec.st,
                             !.last = R(inp.last), !.trades_added = r.sells + r.exits]]

(* the last group: the fills of two different take-profit sells *)
CrashInputs(st) ==
    {Input(TRUE, 4, Oversold, TRUE, <<>>, {}), Input(TRUE, 2, Quiet, TRUE, <<>>, {}),
     Input(TRUE, 4, Quiet, TRUE, <<>>, {})}
    \cup {Input(TRUE, last, Quiet, TRUE, <<o>>, {}) :
             last \in {2, 4}, o \in PairReportsFor(st)}
    \cup {Input(TRUE, 4, Quiet, TRUE,
                 <<Report(p[1], "sell", Shape("closed", 5, 5, 0)),
                   Report(p[2], "sell", Shape("closed", 5, 5, 0))>>, {}) :
             p \in {q \in Ends(st.open_sell_orders) \X Ends(st.open_sell_orders) :
                       q[1] # q[2]}}

(* the cycle of sym is killed and the process started again; one kill in *)
(* a run                                                                 *)
RunSymbolKilled(sym) ==
    /\ phase = "cycle"
    /\ ~wr.crashed
    /\ ~cfg.dry_run
    /\ load_state(disk, sym).ok
    /\ \E inp \in CrashInputs(load_state(disk, sym).st) :
       \E rec \in {reconcile_fills(load_state(disk, sym).st, plfile, "ok",
                                   inp.orders, sym, now_ms(now))} :
         /\ ~rec.raised
         /\ \E d1 \in {IF rec.changed THEN save_state(disk, sym, rec.st) ELSE disk} :
            \E x \in {stop_exit(cfg, d1, IF rec.pl_saved THEN save_pl(rec.pl) ELSE plfile,
                                seq, now, sym, rec.st, R(inp.last), inp.fails, inp.same)} :
            \E a \in {take_profits(cfg, d1, seq, sym, rec.st, R(inp.last), inp.fails,
                                   inp.raise_at, inp.same)} :
            \E b \in {entry_or_clear(cfg, a, seq, now, sym, R(inp.last), inp.rsi, inp.hist,
                                     inp.hist_prev, inp.fails, inp.raise_at, inp.same)} :
            \E f \in {auto_rearm(cfg, b, sym, R(inp.last), inp.rsi)} :
            \E steps \in {cycle_steps(cfg, disk, plfile, seq, sym, inp, rec, x, a, b, f)} :
            \E k \in DOMAIN steps, point \in KillPoints, cut \in KillCounts :
               /\ can_kill(disk, plfile, seq, steps, k, point, cut)
               /\ \E r \in {run_symbol_killed(disk, plfile, seq, sym, inp, rec, steps,
                                              k, point, cut)} :
                     /\ disk' = r.disk
                     /\ plfile' = main_start(r.plfile)
                     /\ seq' = r.seq
                     /\ ev' = r.ev
    /\ wr' = [wr EXCEPT !.crashed = TRUE]
    /\ phase' = "cycle"
    /\ UNCHANGED <<cfg, now, ticks, summaries, loaded>>

InitCrash == Init /\ cfg = CfgA

NextCrash ==
    \/ \E sym \in Symbols : RunSymbol(sym, CrashInputs(load_state(disk, sym).st))
    \/ \E sym \in Symbols : RunSymbolKilled(sym)
    \/ DailySummary
    \/ Sleep(CoarseTimes)

SpecCrash == InitCrash /\ [][NextCrash]_vars

----------------------------------------------------------------------------
(* Indicators: rsi of src/utils.py, _ema and macd of src/bot.py, applied   *)
(* to the closes of a candle window                                        *)

MaxCloses == 4
MaxPeriod == 3

(* values[-i] of a Python list *)
FromEnd(values, i) == values[Len(values) - i + 1]

(* the loop of rsi: acc = <<sum(gains), sum(losses)>> after the deltas 1..i-1 *)
RECURSIVE rsi_sums(_, _, _, _)
rsi_sums(values, period, i, acc) ==
    IF i > period THEN acc
    ELSE rsi_sums(values, period, i + 1,
            IF RLe(FromEnd(values, i + 1), FromEnd(values, i))
            THEN <<RAdd(acc[1], RSub(FromEnd(values, i), FromEnd(values, i + 1))), acc[2]>>
            ELSE <<acc[1], RAdd(acc[2], RSub(FromEnd(values, i + 1), FromEnd(values, i)))>>)

(* variant: a window without any move is neutral *)
rsi_of_sums_neutral(sums, period) ==
    IF sums[1] = R(0) /\ sums[2] = R(0) THEN F(50)
    ELSE IF RDiv(sums[2], R(period)) = R(0) THEN F(100)
    ELSE [nan |-> FALSE,
          v |-> RSub(R(100), RDiv(R(100),
                   RAdd(R(1), RDiv(RDiv(sums[1], R(period)), RDiv(sums[2], R(period))))))]

(* avg_gain, avg_loss, rs and the result *)
rsi_of_sums(sums, period) ==
    IF RDiv(sums[2], R(period)) = R(0) THEN F(100)
    ELSE [nan |-> FALSE,
          v |-> RSub(R(100), RDiv(R(100),
                   RAdd(R(1), RDiv(RDiv(sums[1], R(period)), RDiv(sums[2], R(period))))))]

rsi(values, period) ==
    IF Len(values) < period + 1 THEN NaN
    ELSE rsi_of_sums(rsi_sums(values, period, 1, <<R(0), R(0)>>), period)

RECURSIVE ema_loop(_, _, _, _)
ema_loop(values, k, i, out) ==
    IF i > Len(values) THEN out
    ELSE ema_loop(values, k, i + 1,
            Append(out, RAdd(RMul(values[i], k), RMul(out[i - 1], RSub(R(1), k)))))

_ema(values, period) ==
    IF period <= 1 \/ values = <<>> THEN values
    ELSE ema_loop(values, Rat(2, period + 1), 2, <<values[1]>>)

(* [a - b for a, b in zip(xs, ys)] *)
zip_sub(xs, ys) ==
    [i \in 1..(IF Len(xs) < Len(ys) THEN Len(xs) ELSE Len(ys)) |-> RSub(xs[i], ys[i])]

Max3(a, b, c) ==
    IF a >= b /\ a >= c THEN a ELSE IF b >= c THEN b ELSE c

macd_out(macd_line, signal_line) == <<macd_line, signal_line, zip_sub(macd_line, signal_line)>>

macd_of_line(macd_line, signal) == macd_out(macd_line, _ema(macd_line, signal))

(* variant: macd of src/utils.py, without the short-input guard *)
macd_unguarded(closes, fast, slow, signal) ==
    macd_of_line(zip_sub(_ema(closes, fast), _ema(closes, slow)), signal)

macd(closes, fast, slow, signal) ==
    IF Len(closes) < Max3(fast, slow, signal) + 1
    THEN << <<R(0)>>, <<R(0)>>, <<R(0)>> >>
    ELSE macd_of_line(zip_sub(_ema(closes, fast), _ema(closes, slow)), signal)

CloseValues == {1, 2, 4}

RECURSIVE SeriesOfLen(_)
SeriesOfLen(n) ==
    IF n = 0 THEN {<<>>}
    ELSE {Append(s, R(c)) : s \in SeriesOfLen(n - 1), c \in CloseValues}

Series == UNION {SeriesOfLen(n) : n \in 0..MaxCloses}

(* fast, slow, signal: the defaults of macd and shorter windows *)
MacdParams == {<<12, 26, 9>>, <<1, 2, 1>>, <<2, 3, 2>>, <<1, 2, 3>>}

NoMacd == << <<>>, <<>>, <<>> >>

InitIndicators ==
    /\ cfg = CfgA
    /\ disk = [p \in Paths |-> NoFile]
    /\ plfile = main_start(NoFile)
    /\ now = [date |-> 1, hour |-> 21, minute |-> 0]
    /\ seq = <<>>
    /\ phase = "cycle"
    /\ ticks = 0
    /\ summaries = [d \in 1..MaxDay |-> 0]
    /\ ev \in {[op |-> "init", closes |-> cl, period |-> p, params |-> m,
                rsi |-> NaN, macd |-> NoMacd] :
                  cl \in Series, p \in 1..MaxPeriod, m \in MacdParams}
    /\ wr = NoWrite
    /\ loaded = NoLoad

ComputeRsi ==
    /\ ev.op # "rsi"
    /\ ev' = [ev EXCEPT !.op = "rsi", !.rsi = rsi(ev.closes, ev.period)]
    /\ UNCHANGED <<cfg, disk, plfile, now, seq, phase, ticks, summaries, wr, loaded>>

ComputeMacd ==
    /\ ev.op # "macd"
    /\ ev' = [ev EXCEPT !.op = "macd",
                        !.macd = macd(ev.closes, ev.params[1], ev.params[2], ev.params[3])]
    /\ UNCHANGED <<cfg, disk, plfile, now, seq, phase, ticks, summaries, wr, loaded>>

NextIndicators == ComputeRsi \/ ComputeMacd

SpecIndicators == InitIndicators /\ [][NextIndicators]_vars

----------------------------------------------------------------------------
(* Properties *)

CurSt == load_state(disk, Sym).st
Ledger == load_pl(plfile).pl.trades
Tracked(st) ==
    {st.open_buy_orders[i] : i \in DOMAIN st.open_buy_orders}
    \cup {st.open_sell_orders[i] : i \in DOMAIN st.open_sell_orders}

(* the fill price of a report: its average, else its price *)
ReportPrice(o) == IF o.average # 0 THEN o.average ELSE o.price
IsFill(o) == o.status = "closed" /\ o.filled > 0 /\ ReportPrice(o) > 0

(* C1: a flat position has no cost basis: total_base = 0 implies            *)
(* avg_entry = 0 in every persisted state.                                  *)
C1_FlatHasNoCostBasis == CurSt.total_base = R(0) => CurSt.avg_entry = R(0)

ReportedClosed(e, cid) ==
    \E i \in DOMAIN e.log :
        e.log[i].o.cid = cid /\ e.log[i].o.status = "closed" /\ e.log[i].applied # "none"

(* the reconcile pass of the last cycle applied a report of cid and left  *)
(* the open lists without it                                              *)
LeftInReconcile(cid) ==
    /\ ev.op = "run"
    /\ \E i \in DOMAIN ev.log :
          /\ ev.log[i].o.cid = cid /\ ev.log[i].applied # "none"
          /\ cid \notin Tracked(ev.log[i].after)

CheckedIds == {<<"buy", 1>>, <<"buy", 2>>}

(* C2: a tracked identifier leaves the open sets only in a cycle whose      *)
(* reconcile pass saw a closed report for it, and it leaves exactly once:   *)
(* an identifier that has left in a reconcile pass is never tracked again.  *)
C2_LeavesOnceByReconcile ==
    /\ [][\A cid \in Tracked(CurSt) \ Tracked(CurSt') : ReportedClosed(ev', cid)]_vars
    /\ \A cid \in CheckedIds : [](LeftInReconcile(cid) => [](cid \notin Tracked(CurSt)))

(* the weighted-average step of one log entry, cross-multiplied *)
WeightedAverage(e) ==
    /\ RMul(e.after.avg_entry, RAdd(e.before.total_base, R(e.o.filled)))
         = RAdd(RMul(e.before.avg_entry, e.before.total_base),
                R(e.o.filled * ReportPrice(e.o)))
    /\ e.after.total_base = RAdd(e.before.total_base, R(e.o.filled))

(* C3: apart from the stop-loss reset, avg_entry changes only in a cycle    *)
(* that applies a closed buy fill, and then by the weighted average;        *)
(* placing orders, sell fills, arming and disarming leave it alone.         *)
C3_AvgEntryOnlyOnBuyFill ==
    [][CurSt'.avg_entry # CurSt.avg_entry =>
          \/ ev'.reset
          \/ /\ ev'.log # <<>>
             /\ ev'.log[1].before.avg_entry = CurSt.avg_entry
             /\ ev'.log[Len(ev'.log)].after.avg_entry = CurSt'.avg_entry
             /\ \A i \in DOMAIN ev'.log :
                   ev'.log[i].after.avg_entry # ev'.log[i].before.avg_entry =>
                       ev'.log[i].applied = "buy" /\ WeightedAverage(ev'.log[i])]_vars

(* C4: a cycle resets the state only when the stop-loss has placed its      *)
(* market exit, and then the default state is persisted and one stop_exit   *)
(* entry with filled = total_base and P&L = (price - avg_entry) * total_base *)
(* is appended to the ledger.                                               *)
C4_StopLossResetsWithLedger ==
    (ev.op = "run" /\ (ev.reset \/ ev.stop = "placed")) =>
        /\ ev.reset /\ ev.stop = "placed"
        /\ CurSt = SymbolState
        /\ Len(Ledger) > 0
        /\ Ledger[Len(Ledger)].side = "stop_exit"
        /\ Ledger[Len(Ledger)].filled = ev.stop_st.total_base
        /\ Ledger[Len(Ledger)].realized_usd
             = RMul(RSub(ev.last, ev.stop_st.avg_entry), ev.stop_st.total_base)
        /\ \A k \in 1..(Len(Ledger) - 1) :
              Ledger[k].side = "stop_exit" => k <= Len(Ledger) - ev.trades_added

(* C5: every closed buy report with filled > 0 and price > 0 whose          *)
(* identifier is tracked sets avg_entry to the weighted average, adds       *)
(* filled to total_base and removes the identifier (its first occurrence    *)
(* in the list, which is the only one unless two orders share it), and the  *)
(* result is what the cycle persists; 10 @ 2 from flat gives (2, 10), then  *)
(* 10 @ 4 gives (3, 20).                                                    *)
C5_BuyFillWeightedAverage ==
    ev.op = "run" =>
        /\ \A i \in DOMAIN ev.log :
             LET e == ev.log[i]
             IN  /\ (IsFill(e.o) /\ e.o.side = "buy"
                       /\ InSeq(e.o.cid, e.before.open_buy_orders)) =>
                        /\ e.applied = "buy"
                        /\ WeightedAverage(e)
                        /\ e.after.open_buy_orders = Remove(e.before.open_buy_orders, e.o.cid)
                 /\ (e.applied = "buy" /\ e.before.total_base = R(0)
                       /\ e.o.filled = 10 /\ ReportPrice(e.o) = 2) =>
                        e.after.avg_entry = R(2) /\ e.after.total_base = R(10)
                 /\ (e.applied = "buy" /\ e.before.total_base = R(10)
                       /\ e.before.avg_entry = R(2)
                       /\ e.o.filled = 10 /\ ReportPrice(e.o) = 4) =>
                        e.after.avg_entry = R(3) /\ e.after.total_base = R(20)
                 /\ (i > 1 => e.before = ev.log[i - 1].after)
        /\ (ev.log # <<>> /\ ~ev.reset) =>
              /\ CurSt.avg_entry = ev.log[Len(ev.log)].after.avg_entry
              /\ CurSt.total_base = ev.log[Len(ev.log)].after.total_base

C5_Witness ==
    /\ ev.op = "run"
    /\ \E i \in DOMAIN ev.log :
          /\ ev.log[i].applied = "buy"
          /\ ev.log[i].before.avg_entry = R(2) /\ ev.log[i].before.total_base = R(10)
          /\ ev.log[i].after.avg_entry = R(3) /\ ev.log[i].after.total_base = R(20)
    /\ CurSt.avg_entry = R(3)


IsSellEntry(e) == e.applied = "sell"
RealizedOf(e) ==
    RSub(R(e.o.filled * ReportPrice(e.o)), RMul(R(e.o.filled), e.before.avg_entry))

(* C6: every closed sell report with filled > 0 and price > 0 whose         *)
(* identifier is tracked appends exactly one ledger entry with side sell    *)
(* and P&L = filled*price - filled*avg_entry, with the avg_entry in effect  *)
(* when the report is processed, lowers total_base by filled, floored at 0, *)
(* and removes the identifier (its first occurrence in the list); 5 @ 5     *)
(* against avg_entry 3 yields P&L 10 and takes 5 off a total_base of at     *)
(* least 5.                                                                 *)
C6_SellFillLedger ==
    ev.op = "run" =>
        LET sells == SelectSeq(ev.log, IsSellEntry)
            first == Len(Ledger) - ev.trades_added
        IN  /\ ev.trades_added = Len(sells) + IF ev.reset THEN 1 ELSE 0
            /\ first >= 0
            /\ \A k \in DOMAIN sells :
                  /\ Ledger[first + k].side = "sell"
                  /\ Ledger[first + k].symbol = Sym
                  /\ Ledger[first + k].filled = R(sells[k].o.filled)
                  /\ Ledger[first + k].price = R(ReportPrice(sells[k].o))
                  /\ Ledger[first + k].realized_usd = RealizedOf(sells[k])
            /\ \A i \in DOMAIN ev.log :
                 LET e == ev.log[i]
                     left == RSub(e.before.total_base, R(e.o.filled))
                 IN  /\ (IsFill(e.o) /\ e.o.side = "sell"
                           /\ InSeq(e.o.cid, e.before.open_sell_orders)) =>
                            /\ e.applied = "sell"
                            /\ e.after.total_base = IF RLt(left, R(0)) THEN R(0) ELSE left
                            /\ e.after.avg_entry = e.before.avg_entry
                            /\ e.after.open_sell_orders
                                 = Remove(e.before.open_sell_orders, e.o.cid)
                     /\ (e.applied = "sell" /\ e.before.avg_entry = R(3)
                           /\ RLe(R(5), e.before.total_base)
                           /\ e.o.filled = 5 /\ ReportPrice(e.o) = 5) =>
                            /\ RealizedOf(e) = R(10)
                            /\ e.after.total_base = RSub(e.before.total_base, R(5))

C6_Witness ==
    /\ ev.op = "run"
    /\ Len(ev.log) = 2
    /\ ev.log[1].applied = "buy" /\ ev.log[1].after.avg_entry = R(3)
    /\ ev.log[2].applied = "sell" /\ ev.log[2].o.filled = 5 /\ ReportPrice(ev.log[2].o) = 5
    /\ Ledger[Len(Ledger)].realized_usd = R(10)
    /\ CurSt.total_base = R(15)

(* C7: at most one daily summary is sent per local date, and once it has    *)
(* been sent for today the marker last_daily_summary_date is today.         *)
C7_OneSummaryPerDate ==
    /\ \A d \in DOMAIN summaries : summaries[d] <= 1
    /\ summaries[now.date] = 1 => load_pl(plfile).pl.last_daily_summary_date = now.date

C7_Witness ==
    /\ ev.op = "summary" /\ ev.sent = 0
    /\ now.hour = cfg.summary_hour /\ now.minute = 1
    /\ summaries[now.date] = 1
    /\ now.date > 1
    /\ Ledger # <<>>

(* C8: load_state after a completed save_state of the same symbol returns  *)
(* the saved value, and load_state of a symbol never saved returns the      *)
(* default state.                                                           *)
C8_LoadAfterSave ==
    (loaded.valid /\ ~wr.crashed) =>
        /\ loaded.sym \notin wr.saved => loaded.ok /\ loaded.st = SymbolState
        /\ (wr.last_saved # None /\ wr.last_saved[1] = loaded.sym) =>
              loaded.ok /\ loaded.st = wr.last_saved[2]

(* C9: after a kill inside save_state, load_state finds the complete        *)
(* previous record or the complete new one.                                 *)
C9_SaveIsAtomic ==
    (loaded.valid /\ wr.crashed /\ loaded.sym = wr.sym) =>
        loaded.ok /\ loaded.st \in {wr.old, wr.new}

(* the notional of a ladder step after the amount is cut to the amount step *)
RoundedNotional(usd, price) ==
    LET q == RDiv(usd, price)
    IN  RMul(Rat((q[1] * AmountScale) \div q[2], AmountScale), price)

PlacedBefore(L, k) == Cardinality({j \in 1..(k - 1) : L[j].result = "placed"})

(* C10: step i of the ladder is priced anchor*(1 - i*dca_step_pct/100);     *)
(* planning stops at the first step where placed USD + usd_per_entry        *)
(* exceeds max_position_usd; a step whose rounded notional is below         *)
(* min_notional_usd is skipped, is not counted, and does not stop the later *)
(* steps; steps 3, pct 5, anchor 100 gives 100, 95, 90.  (A cycle that an  *)
(* exception ends inside the ladder plans no further steps.)                *)
C10_Ladder ==
    (ev.op = "run" /\ ev.ladder # <<>> /\ ~ev.raised) =>
        LET L == ev.ladder
            a == CurSt.anchor_price
        IN  /\ a # None
            /\ Len(L) <= cfg.dca_steps
            /\ L[Len(L)].result # "break" => Len(L) = cfg.dca_steps
            /\ \A k \in DOMAIN L :
                 LET over == RLt(cfg.max_position_usd, RAdd(L[k].total_usd, cfg.usd_per_entry))
                     dust == \/ RLt(cfg.usd_per_entry, cfg.min_notional_usd)
                             \/ RLt(RoundedNotional(cfg.usd_per_entry, L[k].price),
                                    cfg.min_notional_usd)
                 IN  /\ L[k].i = k - 1
                     /\ RMul(L[k].price, R(100))
                          = RMul(a, RSub(R(100), RMul(R(k - 1), cfg.dca_step_pct)))
                     /\ L[k].total_usd = RMul(R(PlacedBefore(L, k)), cfg.usd_per_entry)
                     /\ (L[k].result = "break") = over
                     /\ L[k].result = "break" => k = Len(L)
                     /\ (L[k].result = "skipped") = (~over /\ dust)
                     /\ L[k].result \in {"break", "skipped", "placed", "failed"}
            /\ (cfg.dca_steps = 3 /\ cfg.dca_step_pct = R(5) /\ a = R(100)) =>
                  /\ Len(L) = 3
                  /\ L[1].price = R(100) /\ L[2].price = R(95) /\ L[3].price = R(90)

C10_Witness ==
    /\ ev.op = "run"
    /\ Len(ev.ladder) = 3
    /\ ev.ladder[1].result = "placed"
    /\ ev.ladder[2].result = "skipped"
    /\ ev.ladder[3].result = "placed"
    /\ Len(CurSt.open_buy_orders) = 2

(* C11: a cycle that flattens the position (total_base from > 0 to 0, by   *)
(* sell fills or by the stop-loss) leaves no old anchor: afterwards          *)
(* anchor_price is absent or was set in that very cycle.                    *)
C11_FlatteningClearsAnchor ==
    [][(RLt(R(0), CurSt.total_base) /\ CurSt'.total_base = R(0)) =>
           (CurSt'.anchor_price = None \/ ev'.armed # "none")]_vars

IsPrefix(s, t) == Len(s) <= Len(t) /\ SubSeq(t, 1, Len(s)) = s

HasPosition(st) == RLt(R(0), st.total_base) /\ RLt(R(0), st.avg_entry)

(* C12: a cycle whose fetch_orders fails applies no report, leaves the      *)
(* ledger and the position alone, and goes on from the state it loaded:     *)
(* the stop-loss is decided on that state, and without a stop the           *)
(* take-profits are placed for it and the entry signal is evaluated.        *)
C12_FetchOrdersFailureKeepsState ==
    [][(ev'.op = "run" /\ ~ev'.aborted /\ ~cfg.dry_run /\ ~ev'.inp.orders_ok) =>
          \E pre \in {CurSt} : \E post \in {CurSt'} :
            /\ ev'.fetch = "error" /\ ev'.log = <<>>
            /\ (ev'.stop # "none") = stop_hit(cfg, pre, R(ev'.inp.last))
            /\ ev'.stop # "none" => ev'.stop_st = pre /\ ev'.tps = <<>> /\ ev'.ladder = <<>>
            /\ ev'.trades_added = IF ev'.reset THEN 1 ELSE 0
            /\ Len(Ledger') = Len(Ledger) + ev'.trades_added
            /\ IsPrefix(Ledger, Ledger')
            /\ ev'.reset => post = SymbolState
            /\ ~ev'.reset =>
                  /\ post.avg_entry = pre.avg_entry /\ post.total_base = pre.total_base
                  /\ IsPrefix(pre.open_buy_orders, post.open_buy_orders)
                  /\ IsPrefix(pre.open_sell_orders, post.open_sell_orders)
            /\ (ev'.stop = "none" /\ ~ev'.raised) =>
                  /\ Len(ev'.tps) = IF HasPosition(pre) THEN Len(cfg.take_profits) ELSE 0
                  /\ (ev'.ladder # <<>>) =
                        (/\ FLt(ev'.inp.rsi, [nan |-> FALSE, v |-> cfg.entry_rsi_lt])
                         /\ ev'.inp.hist > ev'.inp.hist_prev)]_vars

C12_Witness ==
    /\ ev.op = "run" /\ ev.fetch = "error" /\ ~ev.inp.orders_ok
    /\ ev.stop = "none"
    /\ Len(ev.tps) = 2 /\ ev.tps[1].result = "placed"
    /\ ev.ladder # <<>>
    /\ CurSt.total_base = R(10)

Failed(e) == e.op = "run" /\ (e.aborted \/ e.raised)

(* C13: an exception in one symbol's cycle does not stop the loop: the      *)
(* next symbol's cycle runs in the same tick, the daily summary is checked, *)
(* the next tick starts, and the failing cycle leaves the state files of    *)
(* the other symbols as they were.                                          *)
C13_LoopIsolation ==
    /\ [][/\ (ev'.op = "run" /\ Failed(ev')) =>
                \A s \in {Sym, Sym2} \ {ev'.sym} :
                    disk'[state_path(s)] = disk[state_path(s)]
          /\ (Failed(ev) /\ ev.sym = Sym) =>
                (ev'.op = "run" /\ ev'.sym = Sym2 /\ ticks' = ticks)
          /\ (Failed(ev) /\ ev.sym = Sym2) => (ev'.op = "summary" /\ ticks' = ticks)]_vars
    /\ [](phase \in {"cycle", "cycle2", "summary", "sleep"})
    /\ (Failed(ev) /\ ev.sym = Sym) ~> (ev.op = "run" /\ ev.sym = Sym2)
    /\ Failed(ev) ~> (ev.op = "summary")
    /\ (Failed(ev) /\ ticks < MaxTicks) ~> (ev.op = "sleep" /\ phase = "cycle")

C13_Witness ==
    /\ ev.op = "run" /\ ev.sym = Sym2 /\ ~Failed(ev)
    /\ ~load_state(disk, Sym).ok
    /\ load_state(disk, Sym2).st.open_buy_orders # <<>>
    /\ ticks >= 1

C15_AnchorNeverCleared ==
    [][(ev'.op = "run" /\ ~ev'.aborted /\ ev'.inp.rsi.nan) =>
          \E pre \in {CurSt} : \E post \in {CurSt'} :
              /\ ev'.armed = "none"
              /\ ev'.ladder = <<>>
              /\ pre.anchor_price # None => post.anchor_price = pre.anchor_price]_vars

(* C15 amended: a cycle whose RSI is the not-enough-data value (NaN) does *)
(* not signal: no anchor is armed by the entry evaluation or by the auto- *)
(* rearm, no DCA buy is placed, the disarm step does not fire, and        *)
(* anchor_price is left as it was, unless the stop-loss exit of the cycle *)
(* is placed: that resets the whole state, the anchor with it.            *)
C15_NoSignalWithoutRsi ==
    [][(ev'.op = "run" /\ ~ev'.aborted /\ ev'.inp.rsi.nan) =>
          \E pre \in {CurSt} : \E post \in {CurSt'} :
              /\ ev'.armed = "none"
              /\ ev'.ladder = <<>>
              /\ ~ev'.cleared
              /\ IsPrefix(pre.open_buy_orders, post.open_buy_orders) \/ ev'.reset
              /\ (post.open_buy_orders = pre.open_buy_orders) \/ ev'.log # <<>> \/ ev'.reset
              /\ IF ev'.reset
                 THEN post = SymbolState /\ ev'.stop = "placed"
                 ELSE /\ post.anchor_price = pre.anchor_price
                      /\ post.last_signal_ts = pre.last_signal_ts]_vars

C15_Witness ==
    /\ ev.op = "run" /\ ~ev.aborted /\ ev.inp.rsi.nan
    /\ ev.stop = "none"
    /\ ev.inp.hist > ev.inp.hist_prev
    /\ CurSt.anchor_price # None
    /\ CurSt.total_base = R(0)

(* C18: the stop-loss condition is terminal. In a cycle where, after fill *)
(* reconciliation, total_base > 0, the threshold is positive and the      *)
(* price is below it, no take-profit sell and no DCA buy is placed and no *)
(* anchor is armed or cleared, whether the market exit was placed (the    *)
(* state is then reset) or not (the state stays as reconciled).           *)
C18_StopLossIsTerminal ==
    (/\ ev.op = "run" /\ ~ev.aborted
     /\ RLt(R(0), ev.rec_st.total_base)
     /\ RLt(R(0), cfg.stop_close_below)
     /\ RLt(R(ev.inp.last), cfg.stop_close_below)) =>
        /\ ev.stop \in {"placed", "failed"}
        /\ ev.stop = "placed" <=> ~(1 \in ev.inp.fails)
        /\ ev.tps = <<>>
        /\ ev.ladder = <<>>
        /\ ev.armed = "none"
        /\ ~ev.cleared
        /\ CurSt = IF ev.stop = "placed" THEN SymbolState ELSE ev.rec_st

C18_Witness ==
    /\ ev.op = "run" /\ ev.stop = "failed"
    /\ RLt(R(0), ev.rec_st.avg_entry)
    /\ ev.rec_st.open_sell_orders # <<>>
    /\ FLt(ev.inp.rsi, [nan |-> FALSE, v |-> cfg.entry_rsi_lt])
    /\ ev.inp.hist > ev.inp.hist_prev

(* C19: a take-profit sell is placed only in a cycle that starts its      *)
(* take-profit step with no take-profit order still tracked as resting,   *)
(* and the tracked resting take-profit orders are never more than the     *)
(* take-profit tiers.                                                     *)
C19_OneRestingTpPerTier ==
    /\ Len(CurSt.open_sell_orders) <= Len(cfg.take_profits)
    /\ (ev.op = "run" /\ \E i \in DOMAIN ev.tps : ev.tps[i].result = "placed") =>
           ev.rec_st.open_sell_orders = <<>>

PlacedCount(log) == Cardinality({i \in DOMAIN log : log[i].result = "placed"})

(* C20: every limit order placed in a cycle is tracked in the persisted   *)
(* state: after a cycle, completed or ended by an exception, the saved    *)
(* open_sell_orders and open_buy_orders hold the reconciled lists plus    *)
(* one identifier for each take-profit sell and each DCA buy placed.      *)
C20_PlacedOrdersAreTracked ==
    (ev.op = "run" /\ ~ev.aborted /\ ev.stop = "none") =>
        /\ Len(CurSt.open_sell_orders)
             = Len(ev.rec_st.open_sell_orders) + PlacedCount(ev.tps)
        /\ Len(CurSt.open_buy_orders)
             = Len(ev.rec_st.open_buy_orders) + PlacedCount(ev.ladder)

NoLossIn(values, period) ==
    \A i \in 1..period : RLe(FromEnd(values, i + 1), FromEnd(values, i))

(* C16: for every series and every period >= 1, rsi is the not-enough-    *)
(* data value (NaN) when the series has fewer than period + 1 values;     *)
(* otherwise it is a number in [0, 100], and it is exactly 100 when none  *)
(* of the last period deltas is a loss.                                   *)
C16_RsiRange ==
    ev.op = "rsi" =>
        IF Len(ev.closes) < ev.period + 1
        THEN ev.rsi.nan
        ELSE /\ ~ev.rsi.nan
             /\ RLe(R(0), ev.rsi.v) /\ RLe(ev.rsi.v, R(100))
             /\ NoLossIn(ev.closes, ev.period) => ev.rsi.v = R(100)

C16_Witness ==
    /\ ev.op = "rsi"
    /\ Len(ev.closes) = MaxCloses /\ ev.period = 3
    /\ ev.closes[1] = ev.closes[2] /\ ev.closes[2] = ev.closes[3] /\ ev.closes[3] = ev.closes[4]
    /\ ev.rsi = F(100)

(* C17: for every series and every fast, slow, signal, macd returns three *)
(* sequences of one length with histogram[i] = macdLine[i] -              *)
(* signalLine[i]; the length is the length of the input when it has at    *)
(* least max(fast, slow, signal) + 1 closes, and otherwise each sequence  *)
(* is the single element 0.                                               *)
C17_MacdShape ==
    ev.op = "macd" =>
        /\ Len(ev.macd[1]) = Len(ev.macd[2]) /\ Len(ev.macd[2]) = Len(ev.macd[3])
        /\ \A i \in DOMAIN ev.macd[3] : ev.macd[3][i] = RSub(ev.macd[1][i], ev.macd[2][i])
        /\ IF Len(ev.closes) >= Max3(ev.params[1], ev.params[2], ev.params[3]) + 1
           THEN Len(ev.macd[1]) = Len(ev.closes)
           ELSE ev.macd = << <<R(0)>>, <<R(0)>>, <<R(0)>> >>

C17_Witness ==
    /\ ev.op = "macd"
    /\ ev.params = <<2, 3, 2>>
    /\ Len(ev.closes) = 4
    /\ Len(ev.macd[3]) = 4
    /\ ev.macd[3][4] # R(0)

(* C21: anchor_price goes from absent to present in a cycle only if in    *)
(* that cycle the RSI is below entry_rsi_lt and the MACD histogram is     *)
(* above its previous value; when the auto-rearm sets it, total_base is 0 *)
(* as well.                                                               *)
C21_ArmedOnlyOnSignal ==
    [][\E pre \in {CurSt} : \E post \in {CurSt'} :
          (pre.anchor_price = None /\ post.anchor_price # None) =>
              /\ ev'.op = "run"
              /\ FLt(ev'.inp.rsi, [nan |-> FALSE, v |-> cfg.entry_rsi_lt])
              /\ ev'.inp.hist > ev'.inp.hist_prev
              /\ ev'.armed = "rearm" => post.total_base = R(0)]_vars

(* C22: hysteresis of disarming. In a cycle that starts with an anchor    *)
(* and does not take the stop-loss exit, the anchor is cleared if         *)
(* RSI > entry_rsi_lt + 10, and otherwise anchor_price and last_signal_ts *)
(* are exactly what they were: not cleared and not moved to the current   *)
(* price.                                                                 *)
C22_DisarmHysteresis ==
    [][(ev'.op = "run" /\ ~ev'.aborted /\ ev'.stop = "none") =>
          \E pre \in {CurSt} : \E post \in {CurSt'} :
              pre.anchor_price # None =>
                  IF FGt(ev'.inp.rsi, [nan |-> FALSE, v |-> RAdd(cfg.entry_rsi_lt, R(10))])
                  THEN post.anchor_price = None
                  ELSE /\ post.anchor_price = pre.anchor_price
                       /\ post.last_signal_ts = pre.last_signal_ts]_vars

SideList(st, side) == IF side = "buy" THEN st.open_buy_orders ELSE st.open_sell_orders

AppliedSells(log) == Cardinality({i \in DOMAIN log : log[i].applied = "sell"})

(* C23: reconciliation applies a closed order report at most once. A      *)
(* report whose identifier is not tracked when the cycle starts (it was   *)
(* applied in an earlier pass) or was applied earlier in the same pass    *)
(* leaves the state and the ledger as they are, and the ledger grows by   *)
(* one entry for each applied sell and by nothing else.                   *)
C23_ReconcileIdempotent ==
    [][(ev'.op = "run" /\ ~ev'.aborted) =>
          \E pre \in {CurSt} : \E post \in {CurSt'} : \E log \in {ev'.log} :
              /\ \A i \in DOMAIN log :
                    /\ (~InSeq(log[i].o.cid, SideList(pre, log[i].o.side))
                        \/ \E j \in 1..(i - 1) :
                              log[j].o.cid = log[i].o.cid /\ log[j].applied # "none") =>
                           (log[i].applied = "none" /\ log[i].after = log[i].before)
              /\ Len(Ledger') = Len(Ledger) + AppliedSells(log)
                                + IF ev'.reset THEN 1 ELSE 0
              /\ (\A i \in DOMAIN log : log[i].applied = "none") =>
                    ev'.rec_st = pre]_vars

(* C24: the persisted ledger and the persisted state never disagree      *)
(* about a fill, also when the process is killed inside a cycle and       *)
(* started again: a sell fill that the last cycle wrote to the ledger is  *)
(* no longer tracked in the state file, and after a stop-loss exit that   *)
(* the last cycle wrote to the ledger the state file holds no position.   *)
C24_LedgerAndStateAgree ==
    /\ \A i \in DOMAIN ev.log :
          ev.log[i].applied = "sell" => ev.log[i].o.cid \notin Tracked(CurSt)
    /\ (ev.stop = "placed" /\ ev.trades_added > Len(SellEntries(ev.log))) =>
          CurSt.total_base = R(0)

(* the fill of the killed cycle is applied a second time by the next cycle *)
C24_SecondEntry ==
    /\ ev.op = "run" /\ Len(ev.log) = 1 /\ ev.log[1].applied = "sell"
    /\ Len(Ledger) = 2
    /\ Ledger[1].filled = Ledger[2].filled /\ Ledger[1].price = Ledger[2].price
    /\ Len(CurSt.open_sell_orders) = 1

(* C25: the risk budget holds across cycles: the USD committed by the     *)
(* tracked buy orders plus the cost of the held position never exceeds    *)
(* max_position_usd. A buy order is placed only with a notional of at     *)
(* least min_notional_usd, so every tracked buy commits at least that.    *)
C25_RiskBudgetAcrossCycles ==
    RLe(RAdd(RMul(R(Len(CurSt.open_buy_orders)), cfg.min_notional_usd),
             RMul(CurSt.avg_entry, CurSt.total_base)),
        cfg.max_position_usd)

====
